---- MODULE Spec2Model ----
(***************************************************************************)
(* A model of main.py of the mjlog parser: the tile decoder                *)
(* (tile_id_to_unicode), the meld decoder (decode_meld), the seat lookup   *)
(* (seat_for_tag) and the record loop of main.                             *)
(*                                                                         *)
(* A Python str is modelled as the sequence of its code points, a Python   *)
(* int as a TLA+ integer (unbounded, as in Python), a list as a sequence.  *)
(***************************************************************************)
EXTENDS Integers, Sequences, FiniteSets, TLC

VARIABLES
    root,          \* main: the records of the parsed log, in document order
    pos,           \* main: index of the record the for loop handles next
    out,           \* main: the lines printed so far
    pc,            \* "loop" | "done" | "aborted" (main); "call" | "return" (a codec call)
    tile_id,       \* argument of a tile_id_to_unicode call
    tile_unicode,  \* its result
    m,             \* argument of a decode_meld call
    caller_seat,   \* argument of a decode_meld call
    meld_info      \* its result

vars == <<root, pos, out, pc, tile_id, tile_unicode, m, caller_seat, meld_info>>

(***************************************************************************)
(* Bounds of the model.                                                    *)
(***************************************************************************)
\* tile ids fed to the tile decoder: -NegTileIds .. MaxTileId
NegTileIds == 24
MaxTileId == 160
\* packed meld values fed to the meld decoder: -NegPacked .. MaxPacked
\* (MaxPacked is above 2^16 - 1, so bit 16, outside every window, is set too)
NegPacked == 300
MaxPacked == 66100
\* records in a log
MaxRecords == 2
\* bits 0 .. TopBit of a packed value are flipped to compare two packed values
TopBit == 16

(***************************************************************************)
(* Python strings and integers.                                            *)
(***************************************************************************)
\* the ASCII characters the program's literals and the model's inputs use,
\* each with its code point
Digits == << "0", "1", "2", "3", "4", "5", "6", "7", "8", "9" >>
Upper ==
    << "A", "B", "C", "D", "E", "F", "G", "H", "I", "J", "K", "L", "M",
       "N", "O", "P", "Q", "R", "S", "T", "U", "V", "W", "X", "Y", "Z" >>
Lower ==
    << "a", "b", "c", "d", "e", "f", "g", "h", "i", "j", "k", "l", "m",
       "n", "o", "p", "q", "r", "s", "t", "u", "v", "w", "x", "y", "z" >>

IndexIn(c, table) == CHOOSE i \in 1..Len(table) : table[i] = c

\* ord(c) of a one-character ASCII string
Ord(c) ==
    CASE c = " " -> 32
      [] c = "+" -> 43
      [] c = "," -> 44
      [] c = "-" -> 45
      [] c = "?" -> 63
      [] c = "[" -> 91
      [] c = "]" -> 93
      [] \E i \in 1..Len(Digits) : Digits[i] = c -> 47 + IndexIn(c, Digits)
      [] \E i \in 1..Len(Upper) : Upper[i] = c -> 64 + IndexIn(c, Upper)
      [] \E i \in 1..Len(Lower) : Lower[i] = c -> 96 + IndexIn(c, Lower)

\* the Python str written as the tuple of its characters
Str(cs) == [i \in 1..Len(cs) |-> Ord(cs[i])]

IsAsciiDigit(cp) == Ord("0") <= cp /\ cp <= Ord("9")

\* str(n) of an int: decimal digits, '-' in front of a negative
RECURSIVE FormatNat(_)
FormatNat(n) ==
    IF n < 10 THEN << Ord("0") + n >>
    ELSE Append(FormatNat(n \div 10), Ord("0") + (n % 10))

FormatInt(n) == IF n < 0 THEN << Ord("-") >> \o FormatNat(-n) ELSE FormatNat(n)

\* str.isdigit(): non-empty and every character a digit (the model's
\* alphabet holds ASCII only)
IsDigit(s) == Len(s) > 0 /\ \A i \in 1..Len(s) : IsAsciiDigit(s[i])

RECURSIVE DigitsValue(_)
DigitsValue(s) ==
    IF Len(s) = 0 THEN 0
    ELSE 10 * DigitsValue(SubSeq(s, 1, Len(s) - 1)) + (s[Len(s)] - Ord("0"))

\* int(s) accepts an optional sign and then digits (the model's alphabet
\* holds neither white space nor '_')
IntOk(s) ==
    \/ IsDigit(s)
    \/ Len(s) > 1 /\ s[1] \in {Ord("-"), Ord("+")} /\ IsDigit(Tail(s))

\* int(s), for IntOk(s); otherwise int raises ValueError
PyInt(s) ==
    IF s[1] = Ord("-") THEN 0 - DigitsValue(Tail(s))
    ELSE IF s[1] = Ord("+") THEN DigitsValue(Tail(s))
    ELSE DigitsValue(s)

\* s.lstrip(chars): drop every leading character that is in chars
RECURSIVE LStrip(_, _)
LStrip(s, chars) ==
    IF Len(s) > 0 /\ s[1] \in chars THEN LStrip(Tail(s), chars) ELSE s

\* s.split(","): the pieces between commas ("" splits to [""])
RECURSIVE Split(_)
Split(s) ==
    IF \A i \in 1..Len(s) : s[i] # Ord(",") THEN << s >>
    ELSE LET k == CHOOSE i \in 1..Len(s) :
                     s[i] = Ord(",") /\ \A j \in 1..(i - 1) : s[j] # Ord(",")
         IN << SubSeq(s, 1, k - 1) >> \o Split(SubSeq(s, k + 1, Len(s)))

\* Python's bit operators on unbounded two's-complement ints
\* 2^n, n in 0 .. 20
Pow2Table ==
    << 1, 2, 4, 8, 16, 32, 64, 128, 256, 512, 1024, 2048, 4096, 8192, 16384,
       32768, 65536, 131072, 262144, 524288, 1048576 >>
Pow2(n) == Pow2Table[n + 1]

\* a >> n
Shr(a, n) == a \div Pow2(n)

\* ~a
BitNot(a) == 0 - a - 1

\* a & b
RECURSIVE BitAnd(_, _)
BitAnd(a, b) ==
    IF a = 0 \/ b = 0 THEN 0
    ELSE IF a = -1 THEN b
    ELSE IF b = -1 THEN a
    ELSE (a % 2) * (b % 2) + 2 * BitAnd(a \div 2, b \div 2)

(***************************************************************************)
(* tile_id_to_unicode                                                      *)
(***************************************************************************)
\* chr(0x1F007), chr(0x1F019), chr(0x1F010): first glyph of each suit
ManzuBase == 126983
PinzuBase == 127001
SouzuBase == 126992

\* the list honors, as the file's UTF-8 text reads
honors ==
    << << 287, 376, 8364, 8364 >>,
       << 287, 376, 8364 >>,
       << 287, 376, 8364, 8218 >>,
       << 287, 376, 8364, 402 >>,
       << 287, 376, 8364, 8224 >>,
       << 287, 376, 8364, 8230 >>,
       << 287, 376, 8364, 8222 >> >>

InvalidTilePrefix == Str(<< "[", "I", "n", "v", "a", "l", "i", "d", " ", "t", "i", "l", "e", " " >>)
InvalidHonorsPrefix ==
    Str(<< "[", "I", "n", "v", "a", "l", "i", "d", " ", "h", "o", "n", "o", "r", "s", " ",
           "g", "r", "o", "u", "p", " " >>)
CloseBracket == Str(<< "]" >>)

\* the suit branches with the Pinzu and Souzu glyph blocks exchanged
tile_glyph_swapped(id) ==
    IF 0 <= id /\ id <= 35
    THEN LET rank == id \div 4 + 1 IN << ManzuBase + (rank - 1) >>
    ELSE IF 36 <= id /\ id <= 71
    THEN LET rank == (id - 36) \div 4 + 1 IN << SouzuBase + (rank - 1) >>
    ELSE IF 72 <= id /\ id <= 107
    THEN LET rank == (id - 72) \div 4 + 1 IN << PinzuBase + (rank - 1) >>
    ELSE LET group == (id - 108) \div 4
         IN IF 0 <= group /\ group < Len(honors)
            THEN honors[group + 1]
            ELSE InvalidHonorsPrefix \o FormatInt(group) \o CloseBracket

\* the branches for an id that passed the range check
tile_glyph(id) ==
    IF 0 <= id /\ id <= 35
    THEN LET rank == id \div 4 + 1 IN << ManzuBase + (rank - 1) >>
    ELSE IF 36 <= id /\ id <= 71
    THEN LET rank == (id - 36) \div 4 + 1 IN << PinzuBase + (rank - 1) >>
    ELSE IF 72 <= id /\ id <= 107
    THEN LET rank == (id - 72) \div 4 + 1 IN << SouzuBase + (rank - 1) >>
    ELSE LET group == (id - 108) \div 4
         IN IF 0 <= group /\ group < Len(honors)
            THEN honors[group + 1]
            ELSE InvalidHonorsPrefix \o FormatInt(group) \o CloseBracket

\* no range check: an id out of range is clamped into 0 .. 135
tile_id_clamped(id) ==
    tile_glyph(IF id < 0 THEN 0 ELSE IF id > 135 THEN 135 ELSE id)

tile_id_to_unicode(id) ==
    IF ~(0 <= id /\ id <= 135)
    THEN InvalidTilePrefix \o FormatInt(id) \o CloseBracket
    ELSE tile_glyph(id)

\* what a codec call leaves untouched
NoMain == root = << >> /\ pos = 1 /\ out = << >>
NoResult == << >>

\* a call tile_id_to_unicode(tile_id) with any id of the bounded range
InitTile ==
    /\ NoMain
    /\ pc = "call"
    /\ tile_id \in (0 - NegTileIds)..MaxTileId
    /\ tile_unicode = NoResult
    /\ m = 0 /\ caller_seat = 0 /\ meld_info = NoResult

CallTile ==
    /\ pc = "call"
    /\ tile_unicode' = tile_id_to_unicode(tile_id)
    /\ pc' = "return"
    /\ UNCHANGED <<root, pos, out, tile_id, m, caller_seat, meld_info>>

SpecTile == InitTile /\ [][CallTile]_vars

(***************************************************************************)
(* The tiles and their glyphs, as the docstring of tile_id_to_unicode      *)
(* lists them.                                                             *)
(***************************************************************************)
Suits == {"Manzu", "Pinzu", "Souzu"}
HonorNames == << "East", "South", "West", "North", "White", "Green", "Red" >>

Tiles ==
    [suit : Suits, rank : 1..9] \cup {[honor |-> HonorNames[i]] : i \in 1..7}

IsSuited(t) == "suit" \in DOMAIN t

\* Manzu 1F007 .. 1F00F, Souzu 1F010 .. 1F018, Pinzu 1F019 .. 1F021; the
\* honors as the docstring prints them
Glyph(t) ==
    IF IsSuited(t)
    THEN CASE t.suit = "Manzu" -> << 126982 + t.rank >>
           [] t.suit = "Souzu" -> << 126991 + t.rank >>
           [] t.suit = "Pinzu" -> << 127000 + t.rank >>
    ELSE CASE t.honor = "East" -> << 287, 376, 8364, 8364 >>
           [] t.honor = "South" -> << 287, 376, 8364 >>
           [] t.honor = "West" -> << 287, 376, 8364, 8218 >>
           [] t.honor = "North" -> << 287, 376, 8364, 402 >>
           [] t.honor = "White" -> << 287, 376, 8364, 8224 >>
           [] t.honor = "Green" -> << 287, 376, 8364, 8230 >>
           [] t.honor = "Red" -> << 287, 376, 8364, 8222 >>

\* the reference mapping of tile ids 0 .. 135
RefTile(id) ==
    IF id <= 35 THEN [suit |-> "Manzu", rank |-> id \div 4 + 1]
    ELSE IF id <= 71 THEN [suit |-> "Pinzu", rank |-> (id - 36) \div 4 + 1]
    ELSE IF id <= 107 THEN [suit |-> "Souzu", rank |-> (id - 72) \div 4 + 1]
    ELSE [honor |-> HonorNames[(id - 108) \div 4 + 1]]

\* the text "[Invalid tile <id>]" read back: the id it carries
IsInvalidTile(s) ==
    LET k == Len(InvalidTilePrefix)
    IN /\ Len(s) > k + 1
       /\ SubSeq(s, 1, k) = InvalidTilePrefix
       /\ s[Len(s)] = Ord("]")
       /\ IntOk(SubSeq(s, k + 1, Len(s) - 1))

InvalidTileId(s) == PyInt(SubSeq(s, Len(InvalidTilePrefix) + 1, Len(s) - 1))

\* C1: a valid id decodes to the glyph of its tile in the reference mapping
\* (Manzu, Pinzu, Souzu by id/4 within the suit's 36 ids, then the seven
\* honors); two valid ids decode alike exactly when they lie in the same
\* group of four, and no two tiles share a glyph.
C1_TileMapping ==
    (pc = "return" /\ tile_id \in 0..135) =>
        /\ tile_unicode = Glyph(RefTile(tile_id))
        /\ \A t \in Tiles : (Glyph(t) = tile_unicode) => (t = RefTile(tile_id))
        /\ \A other \in 0..135 :
              (tile_id_to_unicode(other) = tile_unicode)
                  <=> (other \div 4 = tile_id \div 4)

\* C1 witness: id 135 has been decoded, to Red
C1_Witness ==
    /\ pc = "return"
    /\ tile_id = 135
    /\ tile_unicode = Glyph([honor |-> "Red"])

\* C2: an id outside 0 .. 135 decodes to the InvalidTile text carrying that
\* very id, which is the result of no valid id.
C2_InvalidTile ==
    (pc = "return" /\ tile_id \notin 0..135) =>
        /\ IsInvalidTile(tile_unicode)
        /\ InvalidTileId(tile_unicode) = tile_id
        /\ \A v \in 0..135 : tile_id_to_unicode(v) # tile_unicode
        /\ \A t \in Tiles : Glyph(t) # tile_unicode

\* C2 witness: a negative id has been decoded, to the text carrying it
C2_Witness ==
    /\ pc = "return"
    /\ tile_id < 0
    /\ IsInvalidTile(tile_unicode)
    /\ InvalidTileId(tile_unicode) = tile_id

(***************************************************************************)
(* decode_meld                                                             *)
(***************************************************************************)
\* from_seat without the + 1
from_seat_self(mm, seat) == (seat + BitAnd(mm, 3)) % 4

\* the offset masked with 0x1
from_seat_mask1(mm, seat) == (seat + BitAnd(mm, 1) + 1) % 4

\* offset = m & 0x3; from_seat = (caller_seat + offset + 1) % 4
from_seat_of(mm, seat) ==
    LET offset == BitAnd(mm, 3)
    IN (seat + offset + 1) % 4

type_map ==
    [v \in 0..7 |->
        CASE v = 0 -> "chi"
          [] v = 1 -> "pon"
          [] v = 2 -> "nuki"
          [] v = 3 -> "ankan"
          [] v = 4 -> "kakan"
          [] v = 5 -> "minkan"
          [] v = 6 -> "unknown"
          [] v = 7 -> "unknown"]

\* the type read one bit too low: (m >> 2) & 0x07
meld_type_low(mm) == type_map[BitAnd(Shr(mm, 2), 7)]

\* meld_type_val = (m >> 3) & 0x07; meld_type = type_map.get(meld_type_val, "unknown")
meld_type_of(mm) ==
    LET meld_type_val == BitAnd(Shr(mm, 3), 7)
    IN IF meld_type_val \in DOMAIN type_map THEN type_map[meld_type_val] ELSE "unknown"

\* chi: base = (m >> 10) & 0x3F, used as it is
chi_tiles(mm) ==
    LET base == BitAnd(Shr(mm, 10), 63)
    IN << base, base + 1, base + 2 >>

\* pon with the base read from bit 8: (m >> 8) & 0x7F
pon_tiles_shift8(mm) ==
    LET base == BitAnd(Shr(mm, 8), 127)
        base_tile == BitAnd(base, BitNot(3))
    IN << base_tile, base_tile, base_tile >>

\* pon: base = (m >> 9) & 0x7F; base_tile = base & (~0x3)
pon_tiles(mm) ==
    LET base == BitAnd(Shr(mm, 9), 127)
        base_tile == BitAnd(base, BitNot(3))
    IN << base_tile, base_tile, base_tile >>

\* ankan: base = (m >> 8) & 0xFF; base_tile = base & (~0x3)
ankan_tiles(mm) ==
    LET base == BitAnd(Shr(mm, 8), 255)
        base_tile == BitAnd(base, BitNot(3))
    IN << base_tile, base_tile, base_tile, base_tile >>

\* kakan: as ankan
kakan_tiles(mm) ==
    LET base == BitAnd(Shr(mm, 8), 255)
        base_tile == BitAnd(base, BitNot(3))
    IN << base_tile, base_tile, base_tile, base_tile >>

\* minkan with the 8-bit mask of ankan: (m >> 9) & 0xFF
minkan_tiles_mask8(mm) ==
    LET base == BitAnd(Shr(mm, 9), 255)
        base_tile == BitAnd(base, BitNot(3))
    IN << base_tile, base_tile, base_tile, base_tile >>

\* minkan: base = (m >> 9) & 0x7F; base_tile = base & (~0x3)
minkan_tiles(mm) ==
    LET base == BitAnd(Shr(mm, 9), 127)
        base_tile == BitAnd(base, BitNot(3))
    IN << base_tile, base_tile, base_tile, base_tile >>

\* the if / elif chain on meld_type that fills tiles
meld_tiles(mm, meld_type) ==
    IF meld_type = "chi" THEN chi_tiles(mm)
    ELSE IF meld_type = "pon" THEN pon_tiles(mm)
    ELSE IF meld_type = "ankan" THEN ankan_tiles(mm)
    ELSE IF meld_type = "kakan" THEN kakan_tiles(mm)
    ELSE IF meld_type = "minkan" THEN minkan_tiles(mm)
    ELSE << >>

decode_meld(mm, seat) ==
    LET meld_type == meld_type_of(mm)
    IN [type |-> meld_type,
        from_seat |-> from_seat_of(mm, seat),
        tiles |-> meld_tiles(mm, meld_type)]

\* a call decode_meld(m, caller_seat) with any packed value of the bounded
\* range and any of the four seats
InitMeld ==
    /\ NoMain
    /\ pc = "call"
    /\ m \in (0 - NegPacked)..MaxPacked
    /\ caller_seat \in 0..3
    /\ meld_info = NoResult
    /\ tile_id = 0 /\ tile_unicode = NoResult

CallMeld ==
    /\ pc = "call"
    /\ meld_info' = decode_meld(m, caller_seat)
    /\ pc' = "return"
    /\ UNCHANGED <<root, pos, out, tile_id, tile_unicode, m, caller_seat>>

SpecMeld == InitMeld /\ [][CallMeld]_vars

(***************************************************************************)
(* Bit fields of a packed value, by arithmetic.                            *)
(***************************************************************************)
\* bits lo .. hi of x, as a number
Field(x, lo, hi) == (x \div Pow2(lo)) % Pow2(hi - lo + 1)

\* x with bit i inverted
FlipBit(x, i) == IF Field(x, i, i) = 1 THEN x - Pow2(i) ELSE x + Pow2(i)

\* the bits outside the offset field, and outside the type field
AboveOffset == 2..TopBit
OutsideType == (0..TopBit) \ (3..5)

\* b with its low 2 bits cleared
Canonical(b) == b - (b % 4)

Copies(t, n) == [i \in 1..n |-> t]

\* the meld types by type code
RefType ==
    << "chi", "pon", "nuki", "ankan", "kakan", "minkan", "unknown", "unknown" >>

\* C3: source_seat is (caller_seat + (packed & 0b11) + 1) mod 4, a seat in
\* 0 .. 3, and is the same for a packed value that differs in any one bit
\* from bit 2 up.
C3_SourceSeat ==
    (pc = "return") =>
        /\ meld_info.from_seat = (caller_seat + Field(m, 0, 1) + 1) % 4
        /\ meld_info.from_seat \in 0..3
        /\ \A i \in AboveOffset :
              from_seat_of(FlipBit(m, i), caller_seat) = meld_info.from_seat

\* C3 witness: seat 2, offset 2 and bits set above the offset: source seat 1
C3_Witness ==
    /\ pc = "return"
    /\ caller_seat = 2
    /\ Field(m, 0, 1) = 2
    /\ Field(m, 2, 15) # 0
    /\ meld_info.from_seat = 1

\* C4 as stated: source_seat is never caller_seat.
C4_NeverSelf == (pc = "return") => (meld_info.from_seat # caller_seat)

\* C4 amended: source_seat is caller_seat exactly when bits 0-1 of packed
\* are both set (offset 3); for the offsets 0, 1 and 2 it is another seat.
C4_SelfIffOffset3 ==
    (pc = "return") =>
        ((meld_info.from_seat = caller_seat) <=> (Field(m, 0, 1) = 3))

\* C4 witness: offset 3 has been decoded, and the source seat is the caller
C4_Witness ==
    /\ pc = "return"
    /\ Field(m, 0, 1) = 3
    /\ meld_info.from_seat = caller_seat

\* C5: every call returns a meld; its type is the table entry of bits 3-5
\* of packed and does not change with any other bit; a Nuki or Unknown
\* meld has no tiles.
C5_TypeTotal ==
    (pc = "return") =>
        /\ DOMAIN meld_info = {"type", "from_seat", "tiles"}
        /\ meld_info.type = RefType[Field(m, 3, 5) + 1]
        /\ \A i \in OutsideType :
              meld_type_of(FlipBit(m, i)) = meld_info.type
        /\ (meld_info.type \in {"nuki", "unknown"}) => (meld_info.tiles = << >>)

\* C5 witness: type code 7 with a non-zero base field: Unknown, no tiles
C5_Witness ==
    /\ pc = "return"
    /\ Field(m, 3, 5) = 7
    /\ Field(m, 8, 15) # 0
    /\ meld_info.type = "unknown"
    /\ meld_info.tiles = << >>

\* the bits the tiles of a meld of the given type are read from
Window(type) ==
    CASE type = "chi" -> 10..15
      [] type \in {"pon", "minkan"} -> 9..15
      [] type \in {"ankan", "kakan"} -> 8..15
      [] OTHER -> {}

\* C6: the tiles are those of the type's window: Chi b, b+1, b+2 with b =
\* bits 10-15; Pon three and Minkan four copies of bits 9-15 with the low 2
\* bits cleared; Ankan and Kakan four copies of bits 8-15 with the low 2
\* bits cleared; no bit outside the window and the type bits changes them.
C6_TilesFromWindow ==
    (pc = "return") =>
        /\ (meld_info.type = "chi") =>
              LET b == Field(m, 10, 15)
              IN meld_info.tiles = << b, b + 1, b + 2 >>
        /\ (meld_info.type = "pon") =>
              meld_info.tiles = Copies(Canonical(Field(m, 9, 15)), 3)
        /\ (meld_info.type \in {"ankan", "kakan"}) =>
              meld_info.tiles = Copies(Canonical(Field(m, 8, 15)), 4)
        /\ (meld_info.type = "minkan") =>
              meld_info.tiles = Copies(Canonical(Field(m, 9, 15)), 4)
        /\ \A i \in OutsideType \ Window(meld_info.type) :
              meld_tiles(FlipBit(m, i), meld_info.type) = meld_info.tiles
        /\ (meld_info.type = "chi" /\ Field(m, 10, 15) = 4) =>
              meld_info.tiles = << 4, 5, 6 >>
        /\ (meld_info.type = "pon" /\ Field(m, 9, 15) = 9) =>
              meld_info.tiles = << 8, 8, 8 >>
        /\ (meld_info.type = "ankan" /\ Field(m, 8, 15) = 14) =>
              meld_info.tiles = << 12, 12, 12, 12 >>

\* C6 witness: a Pon with base field 9 and bits 6-8 set: tiles 8, 8, 8
C6_Witness ==
    /\ pc = "return"
    /\ meld_info.type = "pon"
    /\ Field(m, 9, 15) = 9
    /\ Field(m, 6, 8) = 7
    /\ meld_info.tiles = << 8, 8, 8 >>

IsTileId(t) == t \in 0..135

\* C9 as stated: every tile of a decoded meld is a tile id in 0 .. 135.
C9_TilesValid ==
    (pc = "return") =>
        \A i \in 1..Len(meld_info.tiles) : IsTileId(meld_info.tiles[i])

\* C9 amended: the tiles of a Chi, Pon or Minkan are tile ids in 0 .. 135;
\* the tiles of an Ankan or Kakan are multiples of 4 in 0 .. 252, and are
\* tile ids exactly when bits 8-15 of packed are below 136.
C9_TilesValidUnlessQuad ==
    (pc = "return") =>
        \A i \in 1..Len(meld_info.tiles) :
            LET t == meld_info.tiles[i]
            IN IF meld_info.type \in {"ankan", "kakan"}
               THEN /\ t \in 0..252 /\ t % 4 = 0
                    /\ IsTileId(t) <=> (Field(m, 8, 15) < 136)
               ELSE IsTileId(t)

\* C9 witness: an Ankan whose tiles are 252, no tile id
C9_Witness ==
    /\ pc = "return"
    /\ meld_info.type = "ankan"
    /\ meld_info.tiles = << 252, 252, 252, 252 >>

\* C10 as stated: the tiles of a Chi, decoded by the tile decoder, are three
\* suited tiles of one suit with consecutive ranks r, r+1, r+2.
C10_ChiIsRun ==
    (pc = "return" /\ meld_info.type = "chi") =>
        \E s \in Suits : \E r \in 1..7 :
            \A i \in 1..3 :
                tile_id_to_unicode(meld_info.tiles[i])
                    = Glyph([suit |-> s, rank |-> r + (i - 1)])

(***************************************************************************)
(* seat_for_tag and the record loop of main                                *)
(***************************************************************************)
draw_map == (Ord("T") :> 0) @@ (Ord("U") :> 1) @@ (Ord("V") :> 2) @@ (Ord("W") :> 3)
discard_map == (Ord("D") :> 0) @@ (Ord("E") :> 1) @@ (Ord("F") :> 2) @@ (Ord("G") :> 3)

seat_for_tag(tag) ==
    IF tag[1] \in DOMAIN draw_map THEN draw_map[tag[1]]
    ELSE IF tag[1] \in DOMAIN discard_map THEN discard_map[tag[1]]
    ELSE -1

\* the characters of 'TUVWDEFG', the argument of tag.lstrip
StripChars == { Ord(c) : c \in {"T", "U", "V", "W", "D", "E", "F", "G"} }
DrawChars == { Ord(c) : c \in {"T", "U", "V", "W"} }

TagN == Str(<< "N" >>)
TagAGARI == Str(<< "A", "G", "A", "R", "I" >>)
TagINIT == Str(<< "I", "N", "I", "T" >>)
Unknown == Str(<< "?" >>)
Empty == << >>

\* str.upper() of the meld types
UpperType(t) ==
    CASE t = "chi" -> "CHI"
      [] t = "pon" -> "PON"
      [] t = "nuki" -> "NUKI"
      [] t = "ankan" -> "ANKAN"
      [] t = "kakan" -> "KAKAN"
      [] t = "minkan" -> "MINKAN"
      [] t = "unknown" -> "UNKNOWN"

\* [tile_id_to_unicode(t) for t in ids]
TilesUnicode(ids) == [i \in 1..Len(ids) |-> tile_id_to_unicode(ids[i])]

\* elem.attrib.get(key, default)
Get(attrib, key, default) == IF key \in DOMAIN attrib THEN attrib[key] ELSE default

\* the records a log is made of: draw and discard tags with a suffix, the
\* Call, the Win, the round start, and tags main does not handle
Suffixes ==
    { Empty,
      Str(<< "0" >>), Str(<< "5" >>), Str(<< "1", "3", "5" >>), Str(<< "1", "3", "6" >>),
      Str(<< "D", "5" >>), Str(<< "x" >>), Str(<< "5", "x" >>) }

\* "who" and "m" of a Call are integer texts, as the log format has them
IntTexts == { Str(<< "0" >>), Str(<< "2" >>) }
PackedTexts ==
    { Str(<< "4", "0", "9", "6" >>), Str(<< "4", "6", "1", "6" >>),
      Str(<< "6", "5", "3", "0", "4" >>), Str(<< "5", "5" >>) }
HaiTexts ==
    { Empty, Str(<< "0", ",", "1", "3", "5" >>), Str(<< "1", "3", "6" >>),
      Str(<< "-", "1" >>), Str(<< "1", ",", "x" >>), Str(<< "1", "," >>) }

NoAttrib == [k \in {} |-> Empty]

Attribs(keys, values) ==
    UNION { [ks -> values] : ks \in SUBSET keys }

Records ==
    { [tag |-> << c >> \o suf, attrib |-> NoAttrib] : c \in StripChars, suf \in Suffixes }
    \cup { [tag |-> TagN, attrib |-> w @@ p] :
             w \in Attribs({"who"}, IntTexts), p \in Attribs({"m"}, PackedTexts) }
    \cup { [tag |-> TagAGARI, attrib |-> w @@ h] :
             w \in Attribs({"who", "fromWho"}, {Str(<< "1" >>)}),
             h \in Attribs({"hai"}, HaiTexts) }
    \cup { [tag |-> TagINIT, attrib |-> NoAttrib],
           [tag |-> Str(<< "S", "H", "U", "F", "F", "L", "E" >>), attrib |-> NoAttrib] }

Init ==
    /\ root \in UNION { [1..n -> Records] : n \in 0..MaxRecords }
    /\ pos = 1
    /\ out = << >>
    /\ pc = "loop"
    /\ tile_id = 0 /\ tile_unicode = NoResult
    /\ m = 0 /\ caller_seat = 0 /\ meld_info = NoResult

NoCodecCall == UNCHANGED <<root, tile_id, tile_unicode, m, caller_seat, meld_info>>

AtRecord == pc = "loop" /\ pos <= Len(root)
elem == root[pos]

\* tile_str = tag.lstrip('TUVWDEFG')
tile_str_of(tag) == LStrip(tag, StripChars)

\* seat != -1: a draw or discard tag; prints when the stripped tag is a number
DrawDiscard ==
    /\ AtRecord
    /\ seat_for_tag(elem.tag) # -1
    /\ LET seat == seat_for_tag(elem.tag)
           tile_str == tile_str_of(elem.tag)
           action == IF elem.tag[1] \in DrawChars THEN "draws" ELSE "discards"
       IN out' = IF IsDigit(tile_str)
                 THEN Append(out, [line |-> action, seat |-> seat,
                                   tile |-> tile_id_to_unicode(PyInt(tile_str))])
                 ELSE out
    /\ pos' = pos + 1
    /\ pc' = pc
    /\ NoCodecCall

\* tag == "N": elem.attrib[...] raises KeyError, int(...) raises ValueError
Call ==
    /\ AtRecord
    /\ seat_for_tag(elem.tag) = -1
    /\ elem.tag = TagN
    /\ IF "who" \notin DOMAIN elem.attrib
       THEN pc' = "KeyError" /\ UNCHANGED <<pos, out>>
       ELSE IF ~IntOk(elem.attrib["who"])
       THEN pc' = "ValueError" /\ UNCHANGED <<pos, out>>
       ELSE IF "m" \notin DOMAIN elem.attrib
       THEN pc' = "KeyError" /\ UNCHANGED <<pos, out>>
       ELSE IF ~IntOk(elem.attrib["m"])
       THEN pc' = "ValueError" /\ UNCHANGED <<pos, out>>
       ELSE LET who == PyInt(elem.attrib["who"])
                m_val == PyInt(elem.attrib["m"])
                info == decode_meld(m_val, who)
            IN /\ out' = Append(out, [line |-> "calls", who |-> who,
                                      type |-> UpperType(info.type),
                                      from_seat |-> info.from_seat,
                                      tiles |-> TilesUnicode(info.tiles)])
               /\ pos' = pos + 1
               /\ pc' = pc
    /\ NoCodecCall

\* tag == "AGARI": int(x) raises ValueError on an entry that is no integer
Agari ==
    /\ AtRecord
    /\ seat_for_tag(elem.tag) = -1
    /\ elem.tag = TagAGARI
    /\ LET who == Get(elem.attrib, "who", Unknown)
           fromWho == Get(elem.attrib, "fromWho", Unknown)
           hai_str == Get(elem.attrib, "hai", Empty)
           pieces == IF hai_str # Empty THEN Split(hai_str) ELSE << >>
       IN IF \E i \in 1..Len(pieces) : ~IntOk(pieces[i])
          THEN pc' = "ValueError" /\ UNCHANGED <<pos, out>>
          ELSE LET tile_ids == [i \in 1..Len(pieces) |-> PyInt(pieces[i])]
               IN /\ out' = Append(out, [line |-> "wins", who |-> who,
                                         fromWho |-> fromWho,
                                         tiles |-> TilesUnicode(tile_ids)])
                  /\ pos' = pos + 1
                  /\ pc' = pc
    /\ NoCodecCall

\* tag == "INIT"
InitRound ==
    /\ AtRecord
    /\ seat_for_tag(elem.tag) = -1
    /\ elem.tag = TagINIT
    /\ out' = Append(out, [line |-> "init"])
    /\ pos' = pos + 1
    /\ pc' = pc
    /\ NoCodecCall

\* any other tag: nothing is printed
Other ==
    /\ AtRecord
    /\ seat_for_tag(elem.tag) = -1
    /\ elem.tag \notin {TagN, TagAGARI, TagINIT}
    /\ pos' = pos + 1
    /\ UNCHANGED <<out, pc>>
    /\ NoCodecCall

\* the for loop is exhausted
Finish ==
    /\ pc = "loop"
    /\ pos > Len(root)
    /\ pc' = "done"
    /\ UNCHANGED <<pos, out>>
    /\ NoCodecCall

Next == DrawDiscard \/ Call \/ Agari \/ InitRound \/ Other \/ Finish

Spec == Init /\ [][Next]_vars

(***************************************************************************)
(* The dispatcher's claims.                                                *)
(***************************************************************************)
\* the marker letters, in seat order
DrawMarkers == Str(<< "T", "U", "V", "W" >>)
DiscardMarkers == Str(<< "D", "E", "F", "G" >>)

IsMarker(c, markers) == \E i \in 1..4 : markers[i] = c
MarkerSeat(c, markers) == (CHOOSE i \in 1..4 : markers[i] = c) - 1

\* the line the claim expects of a draw or discard tag: none when the
\* characters after the first are not all digits
ExpectedLines(tag) ==
    LET rest == Tail(tag)
        draw == IsMarker(tag[1], DrawMarkers)
        seat == IF draw THEN MarkerSeat(tag[1], DrawMarkers)
                ELSE MarkerSeat(tag[1], DiscardMarkers)
    IN IF IsDigit(rest)
       THEN << [line |-> IF draw THEN "draws" ELSE "discards",
                seat |-> seat,
                tile |-> tile_id_to_unicode(PyInt(rest))] >>
       ELSE << >>

\* C7 as stated: a tag that starts with a draw or discard marker yields the
\* Draw or Discard of that marker's seat, with the decoded tile exactly when
\* the characters after the first are all digits, and with no tile otherwise.
C7_TileIffNumericRest ==
    [][ (AtRecord /\ (IsMarker(elem.tag[1], DrawMarkers)
                        \/ IsMarker(elem.tag[1], DiscardMarkers)))
            => (out' = out \o ExpectedLines(elem.tag)) ]_vars

\* C8 as stated: the pass aborts only on a Call record that lacks "who" or
\* "m"; every other record is handled and the loop goes on to the next.
C8_OnlyMissingAttributeFatal ==
    (pc \in {"KeyError", "ValueError"}) =>
        /\ elem.tag = TagN
        /\ ~({"who", "m"} \subseteq DOMAIN elem.attrib)

====
